---- MODULE Spec2Model ----
(***************************************************************************)
(* The resumable delivery pipeline of omni-ai-chat.                        *)
(*                                                                         *)
(* Client side (from the sources): ChatEventSource (lib/eventsource) and   *)
(* the ChatComponent of routes/chat/$chatId (message assembly, send,       *)
(* chat-data merge).  Server side (event log, generation worker, stream    *)
(* gateway, message persistence): the Python backend is not among the      *)
(* sources, so it is modelled from sections 3 and 4 of the specification.  *)
(*                                                                         *)
(* Offsets (Redis stream ids) are the positions 1, 2, ... of a chat's log; *)
(* 0 stands for null / undefined / an absent field.  Text is a sequence of *)
(* tokens, so string concatenation is \o.                                  *)
(***************************************************************************)
EXTENDS Integers, Sequences, FiniteSets, TLC

\* ------------------------------------------------------------------ bounds
MaxSends == 2       \* send-message requests issued by the user
MaxChunks == 2      \* provider fragments per generation cycle
MaxWire == 1        \* frames in flight between gateway and browser
MaxFails == 1       \* transport failures injected in the pipeline
MaxReloads == 1     \* page reloads
MaxRetryFails == 6  \* transport failures injected in the retry specification
MaxStops == 1       \* clicks on the stop button
MaxPeers == 2       \* other subscribers of the chat
MaxDelayed == 1     \* pending delayed connects of reconnect()
MaxGarbled == 1     \* unparseable frames received

\* -------------------------------------------------------- program constants
maxReconnectAttempts == 5
InitialReconnectDelay == 1000

\* ------------------------------------------------------------------ state
VARIABLES
  \* server (modelled from the specification)
  log,            \* the chat's event log; the offset of log[i] is i
  db,             \* the chat's persisted messages
  jobs,           \* accepted generation jobs not yet started (cycle ids)
  worker,         \* [state, cycle, cancel]
  gw,             \* the gateway's side of the connection: [open, pos]
  wire,           \* frames sent by the gateway, not yet received
  \* ChatEventSource
  es,             \* this.eventSource: "null", or the EventSource's readyState
  urlLastId,      \* the last_id in the EventSource's URL
  lastMessageId,  \* this.lastMessageId
  stored,         \* localStorage[chat_last_message_id_<chatId>]
  reconnectAttempts,
  reconnectDelay,
  isManualClose,
  timers,         \* delays of the pending setTimeout callbacks of onerror
  \* ChatComponent
  messages,       \* chatMessagesAtom
  isLoading,      \* isLoadingAtom
  sendState,      \* tempIds of the send requests awaiting their response
  \* environment budgets and observation
  sends, fails, reloads, stops,
  peers,          \* the connections of the chat's other subscribers
  merged,         \* this page merged chat data into or from a non-empty list
  proc,           \* [first, prev, last, cycle]: the log events handled
  sched,          \* reconnects scheduled since the last successful open
  \* the page and the caller of the ChatEventSource
  caller,         \* [released, delayed]: the caller's last call was
                  \* disconnect(); pending setTimeout callbacks of reconnect()
  chatData,       \* [pending, messages]: the chat query's response in flight
  kickOff,        \* [message, sent]: location.state.firstMessage as the SSE
                  \* effect's closure holds it; sends made from onConnected
  garbled         \* unparseable frames received

serverVars == <<log, db, jobs, worker>>
gwVars == <<gw, wire>>
esVars == <<es, urlLastId, lastMessageId, stored, reconnectAttempts,
            reconnectDelay, isManualClose, timers>>
uiVars == <<messages, isLoading, sendState>>
envVars == <<sends, fails, reloads, stops, peers, merged>>
obsVars == <<proc, sched>>
pageVars == <<caller, chatData, kickOff, garbled>>
vars == <<serverVars, gwVars, esVars, uiVars, envVars, obsVars, pageVars>>

\* ------------------------------------------------------------- data shapes
TerminalTypes == {"complete", "error", "terminated"}
EventTypes == {"start", "chunk"} \cup TerminalTypes

NoFrame ==
  [type |-> "none", stream_id |-> 0, content |-> <<>>, cycle |-> 0,
   tokens |-> <<>>, completed_at |-> 0, last_id |-> 0]

\* Decimal digits of a natural number, and parseInt on them.
RECURSIVE Digits(_)
Digits(n) == IF n < 10 THEN <<n>> ELSE Digits(n \div 10) \o <<n % 10>>

RECURSIVE ParseIntDigits(_)
ParseIntDigits(s) ==
  IF s = <<>> THEN 0
  ELSE 10 * ParseIntDigits(SubSeq(s, 1, Len(s) - 1)) + s[Len(s)]

\* The text of the i-th fragment of cycle c, and of the c-th user message.
Fragment(c, i) == <<10 * c + i>>
UserText(c) == <<100 + c>>

\* --------------------------------------------- event log store (spec 4.1)
LatestOffset == Len(log)

\* A faulty AppendEvent: the new event takes the first offset.
AppendEventFront(l, e) == <<e>> \o l

\* append(chat_id, event): the event gets the next offset.
AppendEvent(l, e) == Append(l, e)

\* read(chat_id, from_offset, limit): the entries with offset > from, in
\* order, at most limit of them.
Read(l, from, limit) ==
  [k \in 1..(IF Len(l) - from < limit THEN Len(l) - from ELSE limit) |->
     [offset |-> from + k, event |-> l[from + k]]]

Event(type, content, cycle, tokens, completedAt) ==
  [type |-> type, content |-> content, cycle |-> cycle, tokens |-> tokens,
   completed_at |-> completedAt]

\* The events of cycle c, in log order.
CycleEvents(l, c) == SelectSeq(l, LAMBDA e : e.cycle = c)

ChunkCount(l, c) ==
  Len(SelectSeq(l, LAMBDA e : e.cycle = c /\ e.type = "chunk"))

RECURSIVE ConcatContent(_)
ConcatContent(s) ==
  IF s = <<>> THEN <<>> ELSE Head(s).content \o ConcatContent(Tail(s))

\* The text of cycle c's chunk events, concatenated in log order.
CycleText(l, c) ==
  ConcatContent(SelectSeq(l, LAMBDA e : e.cycle = c /\ e.type = "chunk"))

\* ------------------------------------------- message persistence (spec 3)
DbMessage(content, isUser, status, isComplete, tokens, completedAt, cycle) ==
  [content |-> content, isUser |-> isUser, status |-> status,
   isComplete |-> isComplete, tokens |-> tokens, completedAt |-> completedAt,
   cycle |-> cycle]

\* The assistant message of cycle c, changed by f.
DbUpdate(d, c, f(_)) ==
  [i \in 1..Len(d) |->
     IF ~d[i].isUser /\ d[i].cycle = c THEN f(d[i]) ELSE d[i]]

\* ------------------------------------------ generation worker (spec 4.2)
WorkerIdle == [state |-> "idle", cycle |-> 0, cancel |-> FALSE]

\* Step 1: take a job, append start, create the assistant placeholder.
WorkerStart ==
  /\ worker.state = "idle"
  /\ jobs # <<>>
  /\ LET c == Head(jobs) IN
       /\ log' = AppendEvent(log, Event("start", <<>>, c, <<>>, 0))
       /\ db' = Append(db, DbMessage(<<>>, FALSE, "streaming", FALSE, -1, 0, c))
       /\ worker' = [state |-> "running", cycle |-> c, cancel |-> FALSE]
  /\ jobs' = Tail(jobs)
  /\ UNCHANGED <<gwVars, esVars, uiVars, envVars, obsVars, pageVars>>

\* A faulty WorkerChunk: the chunk is appended, the message mutation is left
\* to a later step.
WorkerChunkLogOnly ==
  /\ worker.state = "running"
  /\ ~worker.cancel
  /\ ChunkCount(log, worker.cycle) < MaxChunks
  /\ log' = AppendEvent(log, Event("chunk",
               Fragment(worker.cycle, ChunkCount(log, worker.cycle) + 1),
               worker.cycle, <<>>, 0))
  /\ UNCHANGED <<db, jobs, worker, gwVars, esVars, uiVars, envVars, obsVars, pageVars>>

\* Step 2: one provider fragment: chunk append and message mutation are one
\* step.  The cancellation signal is checked between chunks.
WorkerChunk ==
  /\ worker.state = "running"
  /\ ~worker.cancel
  /\ ChunkCount(log, worker.cycle) < MaxChunks
  /\ LET c == worker.cycle
         text == Fragment(c, ChunkCount(log, c) + 1)
         add(m) == [m EXCEPT !.content = m.content \o text]
     IN /\ log' = AppendEvent(log, Event("chunk", text, c, <<>>, 0))
        /\ db' = DbUpdate(db, c, add)
  /\ UNCHANGED <<jobs, worker, gwVars, esVars, uiVars, envVars, obsVars, pageVars>>

\* The usage figure the provider reports for a reply of n fragments in cycle c.
TokenCount(c, n) == 10 * c + n

\* The reason string of an error event: a provider error reported by the
\* running worker, or the synthetic error of the liveness timeout.
ErrorReason(state) == IF state = "crashed" THEN <<902>> ELSE <<901>>

\* A faulty WorkerFinish: the terminal event is appended but the worker
\* goes on with the cycle.
WorkerFinishKeepsRunning(type) ==
  /\ log' = AppendEvent(log, Event(type, <<>>, worker.cycle, <<>>, 0))
  /\ UNCHANGED <<db, jobs, worker>>

\* A faulty WorkerFinish: an error ends the cycle and marks the message but
\* is not appended to the log.
WorkerFinishUnlogged(type) ==
  LET c == worker.cycle
      done(m) == [m EXCEPT !.status = IF type = "error" THEN "incomplete"
                                      ELSE "terminated"]
  IN /\ log' = IF type = "error" THEN log
               ELSE AppendEvent(log, Event(type, <<>>, c, <<>>, 0))
     /\ db' = DbUpdate(db, c, done)
     /\ worker' = WorkerIdle
     /\ UNCHANGED jobs

\* Steps 3 and 4: the terminal event of the cycle.
WorkerFinish(type) ==
  LET c == worker.cycle
      n == ChunkCount(log, c)
      tokens == IF type = "complete" THEN Digits(TokenCount(c, n)) ELSE <<>>
      done(m) ==
        CASE type = "complete" ->
               [m EXCEPT !.status = "complete", !.isComplete = TRUE,
                         !.tokens = TokenCount(c, n), !.completedAt = c]
          [] type = "error" -> [m EXCEPT !.status = "incomplete"]
          [] OTHER -> [m EXCEPT !.status = "terminated"]
      reason == IF type = "error" THEN ErrorReason(worker.state) ELSE <<>>
  IN /\ log' = AppendEvent(log, Event(type, reason, c, tokens,
                                      IF type = "complete" THEN c ELSE 0))
     /\ db' = DbUpdate(db, c, done)
     /\ worker' = WorkerIdle
     /\ UNCHANGED jobs

\* Step 3: the provider stream ended.
WorkerComplete ==
  /\ worker.state = "running"
  /\ ~worker.cancel
  /\ WorkerFinish("complete")
  /\ UNCHANGED <<gwVars, esVars, uiVars, envVars, obsVars, pageVars>>

\* Step 4: provider error or per-cycle timeout.
WorkerError ==
  /\ worker.state = "running"
  /\ ~worker.cancel
  /\ WorkerFinish("error")
  /\ UNCHANGED <<gwVars, esVars, uiVars, envVars, obsVars, pageVars>>

\* The out-of-band cancellation request of the stream endpoint.
CancelRequest ==
  /\ worker.state = "running"
  /\ ~worker.cancel
  /\ worker' = [worker EXCEPT !.cancel = TRUE]
  /\ UNCHANGED <<log, db, jobs, gwVars, esVars, uiVars, envVars, obsVars, pageVars>>

\* Step 4: the worker observes the cancellation and appends terminated.
WorkerTerminate ==
  /\ worker.state = "running"
  /\ worker.cancel
  /\ WorkerFinish("terminated")
  /\ UNCHANGED <<gwVars, esVars, uiVars, envVars, obsVars, pageVars>>

\* The worker process dies mid-cycle.
WorkerCrash ==
  /\ worker.state = "running"
  /\ worker' = [worker EXCEPT !.state = "crashed"]
  /\ UNCHANGED <<log, db, jobs, gwVars, esVars, uiVars, envVars, obsVars, pageVars>>

\* A faulty SupervisorTimeout: the abandoned job is dropped silently.
SupervisorAbandons ==
  /\ worker.state = "crashed"
  /\ worker' = WorkerIdle
  /\ UNCHANGED <<log, db, jobs, gwVars, esVars, uiVars, envVars, obsVars, pageVars>>

\* Step 5: the supervising layer finds the abandoned job after the liveness
\* window and appends a synthetic error.
SupervisorTimeout ==
  /\ worker.state = "crashed"
  /\ WorkerFinish("error")
  /\ UNCHANGED <<gwVars, esVars, uiVars, envVars, obsVars, pageVars>>

\* --------------------------------------------- stream gateway (spec 4.3)
Frame(type, streamId, content, cycle, tokens, completedAt, lastId) ==
  [type |-> type, stream_id |-> streamId, content |-> content,
   cycle |-> cycle, tokens |-> tokens, completed_at |-> completedAt,
   last_id |-> lastId]

\* The frame of the log event at offset i.
EventFrame(l, i) ==
  Frame(l[i].type, i, l[i].content, l[i].cycle, l[i].tokens,
        l[i].completed_at, 0)

ConnectedFrame == Frame("connected", 0, <<>>, 0, <<>>, 0, 0)

\* A heartbeat carries the current latest offset of the log.
HeartbeatFrame == Frame("heartbeat", 0, <<>>, 0, <<>>, 0, LatestOffset)

\* A connection of the gateway: pos is the offset read last; upto is the end
\* of the backlog read at the connection request while the backlog is being
\* replayed, 0 while the connection tails the log; raced is the offset of the
\* first event appended during the replay, until the entry after it is
\* forwarded.
GatewayClosed == [open |-> FALSE, pos |-> 0, upto |-> 0, raced |-> 0]

\* REPLAYING while entries of the backlog are left, then LIVE.
GatewayMode(g) ==
  IF ~g.open THEN "closed" ELSE IF g.pos < g.upto THEN "replaying" ELSE "live"

\* The position a connection starts from: the requested offset when one is
\* given (backlog replay), else the end of the log (live tailing only).
StartPosition(requested, latest) == IF requested # 0 THEN requested ELSE latest

\* A faulty LivePosition: live tailing starts at the end of the log.
LivePositionLatest(pos, latest) == latest

\* The offset live tailing continues from after a replay that ended at pos.
LivePosition(pos, latest) == pos

\* The connection whose replay ended at offset pos, switched to live tailing.
SwitchToLive(pos, latest) ==
  [open |-> TRUE, pos |-> LivePosition(pos, latest), upto |-> 0,
   raced |-> IF latest > pos THEN pos + 1 ELSE 0]

\* The connection of an accepted request: the backlog after the requested
\* offset is read; with no backlog the connection is live.
Accepted(requested, latest) ==
  IF StartPosition(requested, latest) < latest
  THEN [open |-> TRUE, pos |-> requested, upto |-> latest, raced |-> 0]
  ELSE [open |-> TRUE, pos |-> StartPosition(requested, latest), upto |-> 0,
        raced |-> 0]

\* Whether the connection has an entry to forward.
CanForward(g, latest) ==
  /\ g.open
  /\ g.pos < (IF GatewayMode(g) = "replaying" THEN g.upto ELSE latest)

\* The connection after forwarding its next entry: after the last entry of
\* the backlog it switches to live tailing.
Forwarded(g, latest) ==
  IF g.pos + 1 = g.upto
  THEN SwitchToLive(g.pos + 1, latest)
  ELSE [g EXCEPT !.pos = g.pos + 1,
                 !.raced = IF g.pos + 1 > g.raced THEN 0 ELSE g.raced]

\* A connection request (chat_id, last_offset) of the page is accepted.
GatewayAccept ==
  /\ es = "connecting"
  /\ ~gw.open
  /\ gw' = Accepted(urlLastId, LatestOffset)
  /\ wire' = <<ConnectedFrame>>
  /\ UNCHANGED <<serverVars, esVars, uiVars, envVars, obsVars, pageVars>>

\* Replay or live tailing: the next entry is forwarded, in order; after the
\* last entry of the backlog the connection switches to live tailing.
GatewayForward ==
  /\ CanForward(gw, LatestOffset)
  /\ Len(wire) < MaxWire
  /\ wire' = Append(wire, EventFrame(log, gw.pos + 1))
  /\ gw' = Forwarded(gw, LatestOffset)
  /\ UNCHANGED <<serverVars, esVars, uiVars, envVars, obsVars, pageVars>>

\* Another subscriber of the chat: its connection, the offset its output
\* starts after, the end of the log when it connected, and the offsets
\* forwarded to it.
PeerClosed == [conn |-> GatewayClosed, from |-> 0, backlog |-> 0, got |-> <<>>]

Peers == 1..MaxPeers

\* The longest log: a start, the chunks and a terminal event per cycle.
MaxOffset == MaxSends * (MaxChunks + 2)

\* A subscriber connects, with a requested offset or with none (0).
PeerAccept(p, requested) ==
  /\ ~peers[p].conn.open
  /\ requested \in 0..LatestOffset
  /\ peers' = [peers EXCEPT ![p] =
                 [conn |-> Accepted(requested, LatestOffset),
                  from |-> StartPosition(requested, LatestOffset),
                  backlog |-> LatestOffset,
                  got |-> <<>>]]
  /\ UNCHANGED <<serverVars, gwVars, esVars, uiVars, sends, fails, reloads,
                 stops, merged, obsVars, pageVars>>

\* A faulty FanOut: the subscribers share one position (competing consumers).
CompetingConsumers(ps, p, latest) ==
  [q \in DOMAIN ps |->
     IF q = p
     THEN [ps[q] EXCEPT !.conn = Forwarded(ps[q].conn, latest),
                        !.got = Append(ps[q].got, ps[q].conn.pos + 1)]
     ELSE IF CanForward(ps[q].conn, latest)
          THEN [ps[q] EXCEPT !.conn = Forwarded(ps[q].conn, latest)]
          ELSE ps[q]]

\* The subscribers after the next entry of p's connection is forwarded to p:
\* each connection has a cursor of its own.
FanOut(ps, p, latest) ==
  [ps EXCEPT ![p] = [ps[p] EXCEPT !.conn = Forwarded(ps[p].conn, latest),
                                  !.got = Append(ps[p].got,
                                                 ps[p].conn.pos + 1)]]

PeerForward(p) ==
  /\ CanForward(peers[p].conn, LatestOffset)
  /\ peers' = FanOut(peers, p, LatestOffset)
  /\ UNCHANGED <<serverVars, gwVars, esVars, uiVars, sends, fails, reloads,
                 stops, merged, obsVars, pageVars>>

\* A subscriber disconnects.
PeerClose(p) ==
  /\ peers[p].conn.open
  /\ peers' = [peers EXCEPT ![p] = PeerClosed]
  /\ UNCHANGED <<serverVars, gwVars, esVars, uiVars, sends, fails, reloads,
                 stops, merged, obsVars, pageVars>>

\* The heartbeat timer fires, independently of chunk traffic.
GatewayHeartbeat ==
  /\ gw.open
  /\ Len(wire) < MaxWire
  /\ wire' = Append(wire, HeartbeatFrame)
  /\ UNCHANGED <<serverVars, gw, esVars, uiVars, envVars, obsVars, pageVars>>

\* ------------------------------------------------------ ChatComponent UI
UiMessage(content, isUser, status, isComplete, tempId, tokens, completedAt) ==
  [content |-> content, isUser |-> isUser, status |-> status,
   isComplete |-> isComplete, tempId |-> tempId, tokens |-> tokens,
   completedAt |-> completedAt]

\* msgs with its last element changed by f (prev.map((m, i) => i === last ...)).
MapLast(msgs, f(_)) ==
  [i \in 1..Len(msgs) |-> IF i = Len(msgs) THEN f(msgs[i]) ELSE msgs[i]]

handleSSEStart(msgs) ==
  Append(msgs, UiMessage(<<>>, FALSE, "streaming", FALSE, 0, -1, 0))

\* A faulty handleSSEChunk: the chunk replaces the content.
handleSSEChunkReplace(msgs, text) ==
  IF msgs # <<>> /\ ~msgs[Len(msgs)].isUser
       /\ msgs[Len(msgs)].status = "streaming"
  THEN LET put(m) == [m EXCEPT !.content = text] IN MapLast(msgs, put)
  ELSE Append(msgs, UiMessage(text, FALSE, "streaming", FALSE, 0, -1, 0))

handleSSEChunk(msgs, text) ==
  IF msgs # <<>> /\ ~msgs[Len(msgs)].isUser
       /\ msgs[Len(msgs)].status = "streaming"
  THEN LET add(m) == [m EXCEPT !.content = m.content \o text,
                               !.status = "streaming"]
       IN MapLast(msgs, add)
  ELSE Append(msgs, UiMessage(text, FALSE, "streaming", FALSE, 0, -1, 0))

handleSSEComplete(msgs, tokens, completedAt) ==
  LET done(m) == [m EXCEPT !.status = "complete", !.isComplete = TRUE,
                           !.tokens = tokens, !.completedAt = completedAt]
  IN MapLast(msgs, done)

handleSSEError(msgs) ==
  LET failed(m) == [m EXCEPT !.status = "incomplete", !.isComplete = FALSE]
  IN MapLast(msgs, failed)

\* chatData.messages.map(...): the loaded messages carry no tempId.
LoadedMessages(d) ==
  [i \in 1..Len(d) |->
     UiMessage(d[i].content, d[i].isUser, d[i].status, d[i].isComplete, 0,
               d[i].tokens, d[i].completedAt)]

\* The setMessages(prev => ...) of the chatData effect.
MergeChatData(prev, loaded) ==
  IF Len(prev) = 0 THEN loaded
  ELSE IF Len(loaded) >= Len(prev) THEN loaded
  ELSE loaded \o SelectSeq(SubSeq(prev, Len(loaded) + 1, Len(prev)),
                           LAMBDA m : m.tempId # 0)

\* The chat query delivers (or re-delivers, on refetch) the chat's data.
LoadChatData ==
  /\ messages' = MergeChatData(messages, LoadedMessages(db))
  /\ merged' = (merged \/ db # <<>> \/ messages # <<>>)
  /\ UNCHANGED <<serverVars, gwVars, esVars, isLoading, sendState, sends,
                 fails, reloads, stops, peers, obsVars, pageVars>>

\* The optimisticMessage of handleSendMessage for send number t.
OptimisticMessage(t) ==
  UiMessage(UserText(t), TRUE, "complete", TRUE, t, 0, 0)

\* No response of the chat query is in flight.
NoChatData == [pending |-> FALSE, messages |-> <<>>]

\* The server answers the chat query (first load or refetch) with the
\* messages as they are now; the response is on its way to the page.
FetchChatData ==
  /\ ~chatData.pending
  /\ chatData' = [pending |-> TRUE, messages |-> db]
  /\ UNCHANGED <<serverVars, gwVars, esVars, uiVars, envVars, obsVars,
                 caller, kickOff, garbled>>

\* The response arrives: chatData changes and the chatData effect merges.
DeliverChatData ==
  /\ chatData.pending
  /\ chatData' = NoChatData
  /\ messages' = MergeChatData(messages, LoadedMessages(chatData.messages))
  /\ merged' = (merged \/ chatData.messages # <<>> \/ messages # <<>>)
  /\ UNCHANGED <<serverVars, gwVars, esVars, isLoading, sendState, sends,
                 fails, reloads, stops, peers, obsVars, caller, kickOff,
                 garbled>>

\* handleSendMessage up to its await: the optimistic user message.
HandleSendMessage ==
  /\ sends < MaxSends
  /\ ~isLoading
  /\ sends' = sends + 1
  /\ messages' = Append(messages, OptimisticMessage(sends + 1))
  /\ isLoading' = TRUE
  /\ sendState' = sendState \cup {sends + 1}
  /\ UNCHANGED <<serverVars, gwVars, esVars, fails, reloads, stops, peers,
                 merged, obsVars, pageVars>>

\* The tokens the send endpoint may report for the user message.
SendTokens == {7}

\* The send request succeeds: the server persists the user message and
\* enqueues the generation job; handleSendMessage resumes with the result.
SendOk(t, tokens) ==
  /\ t \in sendState
  /\ sendState' = sendState \ {t}
  /\ db' = Append(db, DbMessage(UserText(t), TRUE, "complete", TRUE, tokens, 0, t))
  /\ jobs' = Append(jobs, t)
  /\ messages' = IF tokens > 0
                 THEN [i \in 1..Len(messages) |->
                         IF messages[i].tempId = t
                         THEN [messages[i] EXCEPT !.tokens = tokens]
                         ELSE messages[i]]
                 ELSE messages
  /\ UNCHANGED <<log, worker, gwVars, esVars, isLoading, envVars, obsVars, pageVars>>

\* The send request fails: the optimistic update is reverted.
SendFail(t) ==
  /\ t \in sendState
  /\ sendState' = sendState \ {t}
  /\ messages' = SelectSeq(messages, LAMBDA m : m.tempId # t)
  /\ isLoading' = FALSE
  /\ UNCHANGED <<serverVars, gwVars, esVars, envVars, obsVars, pageVars>>

\* handleTerminateClick of FloatingChatContainer, whose stop button is shown
\* while isLoading: ChatComponent passes no onTerminateGeneration, so the
\* click calls nothing.
HandleTerminateClick ==
  /\ isLoading
  /\ stops < MaxStops
  /\ stops' = stops + 1
  /\ UNCHANGED <<serverVars, gwVars, esVars, uiVars, sends, fails, reloads,
                 peers, merged, obsVars, pageVars>>

\* ------------------------------------------------------- ChatEventSource
\* The fields connect() and disconnect() read and write.
ThisSource ==
  [es |-> es, urlLastId |-> urlLastId, lastMessageId |-> lastMessageId,
   isManualClose |-> isManualClose]

\* new ChatEventSource(chatId, options): the cursor is read from localStorage.
NewSource(storedId) ==
  [es |-> "null", urlLastId |-> 0, lastMessageId |-> storedId,
   isManualClose |-> FALSE]

connect(o) ==
  IF o.es # "null" THEN o
  ELSE [o EXCEPT !.isManualClose = FALSE,
                 !.urlLastId = o.lastMessageId,
                 !.es = "connecting"]

disconnect(o) == [o EXCEPT !.isManualClose = TRUE, !.es = "null"]

\* The fields of o become the state; a closed or replaced EventSource ends
\* the gateway's connection and drops the frames in flight.
SetSource(o) ==
  /\ es' = o.es
  /\ urlLastId' = o.urlLastId
  /\ lastMessageId' = o.lastMessageId
  /\ isManualClose' = o.isManualClose
  /\ gw' = GatewayClosed
  /\ wire' = <<>>

\* A faulty storeLastMessageId: localStorage is not written.
storeInMemoryOnly(cur, id) == [stored |-> cur.stored, lastMessageId |-> id]

\* storeLastMessageId on the pair of cursors.
storeLastMessageId(cur, id) == [stored |-> id, lastMessageId |-> id]

\* The cursors after handleMessage(f).
CursorAfter(cur, f) ==
  LET c1 == IF f.stream_id # 0 THEN storeLastMessageId(cur, f.stream_id)
            ELSE cur
  IN IF f.type = "heartbeat" /\ f.last_id # 0
     THEN storeLastMessageId(c1, f.last_id)
     ELSE c1

\* The caller's callback handleMessage(f) invokes, if any.
CallbackOf(f) ==
  CASE f.type = "connected" -> "onConnected"
    [] f.type = "start" -> "onStart"
    [] f.type = "chunk" -> IF f.content # <<>> THEN "onChunk" ELSE "none"
    [] f.type = "complete" -> "onComplete"
    [] f.type = "error" -> "onError"
    [] f.type = "heartbeat" -> "onHeartbeat"
    [] OTHER -> "none"  \* terminated: the caller passes no onTerminated

\* data.tokens ? parseInt(data.tokens) : undefined
TokensOf(f) == IF f.tokens = <<>> THEN -1 ELSE ParseIntDigits(f.tokens)

\* The message list after the callback of handleMessage(f).
MessagesAfter(msgs, f) ==
  CASE CallbackOf(f) = "onStart" -> handleSSEStart(msgs)
    [] CallbackOf(f) = "onChunk" -> handleSSEChunk(msgs, f.content)
    [] CallbackOf(f) = "onComplete" ->
         handleSSEComplete(msgs, TokensOf(f), f.completed_at)
    [] CallbackOf(f) = "onError" -> handleSSEError(msgs)
    [] OTHER -> msgs

\* handleSSEComplete and handleSSEError end the loading state.
LoadingAfter(loading, f) ==
  IF CallbackOf(f) \in {"onComplete", "onError"} THEN FALSE ELSE loading

\* The offsets of the first, the last but one and the last log event handled,
\* and the latest cycle whose start was handled.
ProcAfter(p, f) ==
  IF f.type \in EventTypes
  THEN [first |-> IF p.first = 0 THEN f.stream_id ELSE p.first,
        prev |-> p.last, last |-> f.stream_id,
        cycle |-> IF f.type = "start" /\ f.cycle > p.cycle
                  THEN f.cycle ELSE p.cycle]
  ELSE p

\* No first message was handed over to the page.
NoKickOff == [message |-> 0, sent |-> 0]

\* onConnected sends the first message: the closure of the SSE effect holds
\* location.state.firstMessage and the handleSendMessage of the render the
\* effect ran in, whose isLoading is that render's (FALSE); replaceState
\* changes window.history.state, not the closure.
KickOffDue(f, k) == CallbackOf(f) = "onConnected" /\ k.message # 0

\* eventSource.onmessage with a well-formed frame: handleMessage(data).
OnMessage ==
  /\ es = "open"
  /\ wire # <<>>
  /\ KickOffDue(Head(wire), kickOff) => sends < MaxSends
  /\ LET f == Head(wire)
         cur == CursorAfter([stored |-> stored,
                             lastMessageId |-> lastMessageId], f)
     IN /\ stored' = cur.stored
        /\ lastMessageId' = cur.lastMessageId
        /\ proc' = ProcAfter(proc, f)
        /\ IF KickOffDue(f, kickOff)
           THEN /\ sends' = sends + 1
                /\ messages' = Append(messages, OptimisticMessage(sends + 1))
                /\ isLoading' = TRUE
                /\ sendState' = sendState \cup {sends + 1}
                /\ kickOff' = [kickOff EXCEPT !.sent = @ + 1]
           ELSE /\ messages' = MessagesAfter(messages, f)
                /\ isLoading' = LoadingAfter(isLoading, f)
                /\ UNCHANGED <<sends, sendState, kickOff>>
  /\ wire' = Tail(wire)
  /\ UNCHANGED <<serverVars, gw, es, urlLastId, reconnectAttempts,
                 reconnectDelay, isManualClose, timers, fails, reloads, stops,
                 peers, merged, sched, caller, chatData, garbled>>

\* What eventSource.onmessage does with data that is no event: empty data
\* is skipped; other data fails JSON.parse, also after the removal of a
\* "data: " prefix, and is reported to options.onError.
MalformedData == {"", "text", "data: text"}

ParseFailure(data) ==
  CASE data = "" -> "skipped"
    [] data = "data: text" -> "Failed to parse stream message"
    [] OTHER -> "Invalid stream message format"

\* eventSource.onmessage with data that cannot be parsed as an event.
OnMalformed(data) ==
  /\ es = "open"
  /\ gw.open
  /\ garbled < MaxGarbled
  /\ garbled' = garbled + 1
  /\ IF ParseFailure(data) # "skipped"
     THEN /\ messages' = handleSSEError(messages)
          /\ isLoading' = FALSE
     ELSE UNCHANGED <<messages, isLoading>>
  /\ UNCHANGED <<serverVars, gwVars, esVars, sendState, envVars, obsVars,
                 caller, chatData, kickOff>>

\* eventSource.onopen.
OnOpen ==
  /\ es = "connecting"
  /\ gw.open
  /\ es' = "open"
  /\ reconnectAttempts' = 0
  /\ reconnectDelay' = InitialReconnectDelay
  /\ sched' = 0
  /\ UNCHANGED <<serverVars, gwVars, urlLastId, lastMessageId, stored,
                 isManualClose, timers, uiVars, envVars, proc, pageVars>>

\* Whether onerror schedules a reconnect.
ShouldReconnect(manual, attempts) ==
  ~manual /\ attempts < maxReconnectAttempts

\* A faulty BackoffDelay: the delay grows linearly.
BackoffDelayLinear(base, n) == base * n

\* The delay of the reconnect scheduled as attempt number n.
BackoffDelay(base, n) == base * 2 ^ (n - 1)

\* A faulty GivesUp: every transport failure is reported.
GivesUpAtOnce(manual, attempts) == attempts >= 0

\* Whether onerror gives up and calls options.onError.
GivesUp(manual, attempts) ==
  ~ShouldReconnect(manual, attempts) /\ attempts >= maxReconnectAttempts

\* The transport fails and eventSource.onerror runs.  The EventSource is not
\* closed by the handler: the browser keeps requesting the same URL
\* (readyState CONNECTING).
OnError(limit) ==
  /\ es \in {"connecting", "open"}
  /\ fails < limit
  /\ fails' = fails + 1
  /\ es' = "connecting"
  /\ gw' = GatewayClosed
  /\ wire' = <<>>
  /\ IF ShouldReconnect(isManualClose, reconnectAttempts)
     THEN /\ reconnectAttempts' = reconnectAttempts + 1
          /\ timers' = Append(timers, BackoffDelay(reconnectDelay,
                                                   reconnectAttempts + 1))
          /\ sched' = sched + 1
     ELSE UNCHANGED <<reconnectAttempts, timers, sched>>
  /\ IF GivesUp(isManualClose, reconnectAttempts)
     THEN /\ messages' = handleSSEError(messages)
          /\ isLoading' = FALSE
     ELSE UNCHANGED <<messages, isLoading>>
  /\ UNCHANGED <<serverVars, urlLastId, lastMessageId, stored, reconnectDelay,
                 isManualClose, sendState, sends, reloads, stops, peers,
                 merged, proc, pageVars>>

\* s without its i-th element.
RemoveAt(s, i) == SubSeq(s, 1, i - 1) \o SubSeq(s, i + 1, Len(s))

\* The setTimeout callback of onerror: disconnect(), then connect().
TimerFire(i) ==
  /\ i \in 1..Len(timers)
  /\ timers' = RemoveAt(timers, i)
  /\ IF ~isManualClose
     THEN SetSource(connect(disconnect(ThisSource)))
     ELSE UNCHANGED <<es, urlLastId, lastMessageId, isManualClose, gwVars>>
  /\ UNCHANGED <<serverVars, stored, reconnectAttempts, reconnectDelay,
                 uiVars, envVars, obsVars, pageVars>>

\* The caller has made no call since connect().
CallerIdle == [released |-> FALSE, delayed |-> 0]

\* The page is reloaded: the atoms and timers are gone, localStorage stays;
\* the SSE effect constructs a ChatEventSource and connects.
Reload ==
  /\ reloads < MaxReloads
  /\ sendState = {}
  /\ reloads' = reloads + 1
  /\ SetSource(connect(NewSource(stored)))
  /\ reconnectAttempts' = 0
  /\ reconnectDelay' = InitialReconnectDelay
  /\ timers' = <<>>
  /\ messages' = <<>>
  /\ isLoading' = FALSE
  /\ merged' = FALSE
  /\ sched' = 0
  /\ caller' = CallerIdle
  /\ chatData' = NoChatData
  /\ kickOff' = IF kickOff.sent > 0 THEN NoKickOff ELSE kickOff
  /\ UNCHANGED <<serverVars, stored, sendState, sends, fails, stops, peers,
                 proc, garbled>>

\* The caller calls disconnect(): the cleanup of the SSE effect.
Disconnect ==
  /\ ~caller.released
  /\ SetSource(disconnect(ThisSource))
  /\ caller' = [caller EXCEPT !.released = TRUE]
  /\ UNCHANGED <<serverVars, stored, reconnectAttempts, reconnectDelay,
                 timers, uiVars, envVars, obsVars, chatData, kickOff,
                 garbled>>

\* The caller calls reconnect(): disconnect(), and connect() 100 ms later.
Reconnect ==
  /\ caller.delayed < MaxDelayed
  /\ SetSource(disconnect(ThisSource))
  /\ caller' = [released |-> FALSE, delayed |-> caller.delayed + 1]
  /\ UNCHANGED <<serverVars, stored, reconnectAttempts, reconnectDelay,
                 timers, uiVars, envVars, obsVars, chatData, kickOff,
                 garbled>>

\* The setTimeout callback of reconnect(): connect().
DelayedConnect ==
  /\ caller.delayed > 0
  /\ caller' = [caller EXCEPT !.delayed = @ - 1]
  /\ IF es = "null"
     THEN SetSource(connect(ThisSource))
     ELSE UNCHANGED <<es, urlLastId, lastMessageId, isManualClose, gwVars>>
  /\ UNCHANGED <<serverVars, stored, reconnectAttempts, reconnectDelay,
                 timers, uiVars, envVars, obsVars, chatData, kickOff,
                 garbled>>

\* ------------------------------------------------------- specifications
\* A page opened on an empty chat by a logged-in user, after the SSE effect
\* ran: new ChatEventSource(chatId, ...) and connect().
InitPage(first) ==
  /\ log = <<>>
  /\ db = <<>>
  /\ jobs = <<>>
  /\ worker = WorkerIdle
  /\ gw = GatewayClosed
  /\ wire = <<>>
  /\ es = connect(NewSource(0)).es
  /\ urlLastId = connect(NewSource(0)).urlLastId
  /\ lastMessageId = connect(NewSource(0)).lastMessageId
  /\ isManualClose = connect(NewSource(0)).isManualClose
  /\ stored = 0
  /\ reconnectAttempts = 0
  /\ reconnectDelay = InitialReconnectDelay
  /\ timers = <<>>
  /\ messages = <<>>
  /\ isLoading = FALSE
  /\ sendState = {}
  /\ sends = 0
  /\ fails = 0
  /\ reloads = 0
  /\ stops = 0
  /\ peers = [p \in Peers |-> PeerClosed]
  /\ merged = FALSE
  /\ proc = [first |-> 0, prev |-> 0, last |-> 0, cycle |-> 0]
  /\ sched = 0
  /\ caller = CallerIdle
  /\ chatData = NoChatData
  /\ kickOff = [message |-> first, sent |-> 0]
  /\ garbled = 0

\* The page of an existing chat: no first message is handed over.
Init == InitPage(0)

\* The page reached from new-chat creation or not: navigate() may have put
\* the first message into location.state.
InitAnyPage == \E first \in {0, 1} : InitPage(first)

Send ==
  \/ HandleSendMessage
  \/ \E t \in 1..MaxSends, tokens \in SendTokens : SendOk(t, tokens)
  \/ \E t \in 1..MaxSends : SendFail(t)

Worker ==
  \/ WorkerStart
  \/ WorkerChunk
  \/ WorkerComplete
  \/ WorkerError
  \/ CancelRequest
  \/ WorkerTerminate
  \/ WorkerCrash
  \/ SupervisorTimeout

Gateway ==
  \/ GatewayAccept
  \/ GatewayForward
  \/ GatewayHeartbeat

\* The generation worker and the log, driven by the user's sends (a reload
\* lets the user send again while the page shows no loading state).
NextWorker == Send \/ HandleTerminateClick \/ Worker \/ Reload

SpecWorker == Init /\ [][NextWorker]_vars

\* The server side observed by the chat's other subscribers: one page sends,
\* the worker runs, crashes and is supervised, subscribers come and go.
Subscribers ==
  \/ \E p \in Peers, r \in 0..MaxOffset : PeerAccept(p, r)
  \/ \E p \in Peers : PeerForward(p)
  \/ \E p \in Peers : PeerClose(p)

NextFanOut ==
  \/ HandleSendMessage
  \/ \E t \in 1..MaxSends, tokens \in SendTokens : SendOk(t, tokens)
  \/ Worker
  \/ Subscribers

SpecFanOut == Init /\ [][NextFanOut]_vars

\* The same, with the supervisor's liveness timer and the gateway's
\* forwarding loops running: neither is postponed forever.
SpecLiveness ==
  /\ SpecFanOut
  /\ WF_vars(SupervisorTimeout)
  /\ \A p \in Peers : WF_vars(PeerForward(p))

\* Message assembly: delivery over one connection after another, page
\* reloads and chat-data loads, no transport failure, no worker crash.
NextAssemble ==
  \/ Send
  \/ WorkerStart
  \/ WorkerChunk
  \/ WorkerComplete
  \/ WorkerError
  \/ CancelRequest
  \/ WorkerTerminate
  \/ GatewayAccept
  \/ GatewayForward
  \/ OnOpen
  \/ OnMessage
  \/ LoadChatData
  \/ Reload

SpecAssemble == Init /\ [][NextAssemble]_vars

\* The cursor protocol: heartbeats, transport failures, reconnects, reloads.
NextStream ==
  \/ HandleSendMessage
  \/ \E t \in 1..MaxSends, tokens \in SendTokens : SendOk(t, tokens)
  \/ WorkerStart
  \/ WorkerChunk
  \/ WorkerComplete
  \/ Gateway
  \/ OnOpen
  \/ OnMessage
  \/ OnError(MaxFails)
  \/ \E i \in 1..MaxFails : TimerFire(i)
  \/ Reload

Spec == Init /\ [][NextStream]_vars

\* The page's own life: a handed-over first message, unparseable frames.
NextPage ==
  \/ HandleSendMessage
  \/ \E t \in 1..MaxSends, tokens \in SendTokens : SendOk(t, tokens)
  \/ WorkerStart
  \/ WorkerChunk
  \/ WorkerComplete
  \/ GatewayAccept
  \/ GatewayForward
  \/ OnOpen
  \/ OnMessage
  \/ \E data \in MalformedData : OnMalformed(data)
  \/ OnError(MaxFails)
  \/ \E i \in 1..MaxFails : TimerFire(i)

SpecPage == InitAnyPage /\ [][NextPage]_vars

\* The caller's calls on the ChatEventSource of a page whose stream may
\* fail.
NextCaller ==
  \/ HandleSendMessage
  \/ \E t \in 1..MaxSends, tokens \in SendTokens : SendOk(t, tokens)
  \/ WorkerStart
  \/ WorkerChunk
  \/ GatewayAccept
  \/ GatewayForward
  \/ OnOpen
  \/ OnMessage
  \/ OnError(MaxFails)
  \/ \E i \in 1..MaxFails : TimerFire(i)
  \/ Disconnect
  \/ Reconnect
  \/ DelayedConnect

SpecCaller == Init /\ [][NextCaller]_vars

\* The chat query's response races with the stream.
NextMerge ==
  \/ HandleSendMessage
  \/ \E t \in 1..MaxSends, tokens \in SendTokens : SendOk(t, tokens)
  \/ WorkerStart
  \/ WorkerChunk
  \/ WorkerComplete
  \/ GatewayAccept
  \/ GatewayForward
  \/ OnOpen
  \/ OnMessage
  \/ FetchChatData
  \/ DeliverChatData

SpecMerge == Init /\ [][NextMerge]_vars

\* The retry budget: transport failures in a row, reconnects, opens.
NextRetry ==
  \/ HandleSendMessage
  \/ \E t \in 1..MaxSends, tokens \in SendTokens : SendOk(t, tokens)
  \/ WorkerStart
  \/ WorkerChunk
  \/ GatewayAccept
  \/ GatewayForward
  \/ OnOpen
  \/ OnMessage
  \/ OnError(MaxRetryFails)
  \/ \E i \in 1..MaxRetryFails : TimerFire(i)

SpecRetry == Init /\ [][NextRetry]_vars

\* ------------------------------------------------------------ properties
Cycles == 1..MaxSends

Offsets(l, c, types) == {i \in 1..Len(l) : l[i].cycle = c /\ l[i].type \in types}

\* C7: every generation cycle of the log has one start, before all its other
\* events, and at most one terminal event, after which it has no event; a
\* cycle the worker has left has exactly one terminal event.  Whatever the
\* interleaving of fragments, provider errors, cancellation and crashes.
C7_OneTerminal ==
  \A c \in Cycles :
    LET all == Offsets(log, c, EventTypes)
        starts == Offsets(log, c, {"start"})
        terms == Offsets(log, c, TerminalTypes)
    IN /\ Cardinality(terms) <= 1
       /\ all # {} => /\ Cardinality(starts) = 1
                      /\ \A i \in all : \A s \in starts : s <= i
       /\ \A t \in terms : \A i \in all : i <= t
       /\ (all # {} /\ worker.cycle # c) => Cardinality(terms) = 1

\* A cancelled cycle with a chunk, and a crashed one ended by the supervisor.
C7_Witness ==
  /\ worker.state = "idle"
  /\ \E i \in 2..Len(log) :
       log[i].type = "terminated" /\ log[i - 1].type = "chunk"
  /\ \E i \in 1..Len(log) : log[i].type = "error" /\ log[i].cycle = 2

\* C1: resume without gaps or duplicates: a log event the client handles
\* after it handled the event at offset k is the event at offset k + 1, on
\* the same connection, after a reconnect and after a reload.
C1_ResumeExact == proc.prev # 0 => proc.last = proc.prev + 1

\* C2: deduplication: handling an event whose offset is at most the offset
\* of the last event the consumer handled invokes no callback (the message
\* list and the loading state stay as they are) and leaves the cursor alone.
C2_Dedup ==
  [][(OnMessage /\ Head(wire).stream_id # 0
        /\ Head(wire).stream_id <= proc.last)
       => UNCHANGED <<messages, isLoading, lastMessageId, stored>>]_vars

\* The text of the assistant messages of the list, in order.
RECURSIVE AssistantText(_)
AssistantText(msgs) ==
  IF msgs = <<>> THEN <<>>
  ELSE (IF Head(msgs).isUser THEN <<>> ELSE Head(msgs).content)
         \o AssistantText(Tail(msgs))

NoRepeat(s) == \A i, j \in 1..Len(s) : s[i] = s[j] => i = j

\* C3: replay idempotence: after a page reload that loaded the persisted
\* messages and resumed from the stored cursor, the assembled assistant
\* messages are those of a single delivery: no chunk text appears twice.
C3_NoChunkTwice ==
  (reloads > 0 /\ merged /\ urlLastId # 0) => NoRepeat(AssistantText(messages))

C5_StartClearsCursor ==
  [][/\ (OnMessage /\ Head(wire).type = "start") => stored' = 0
     /\ (OnMessage /\ Head(wire).type = "chunk")
          => Head(wire).cycle >= proc.cycle]_vars

\* The indices of the assistant messages of the list.
AssistantIndices(msgs) == {i \in 1..Len(msgs) : ~msgs[i].isUser}

BackoffDelays == [n \in 1..5 |-> 1000 * 2 ^ (n - 1)]

\* C8: bounded exponential backoff: a transport failure schedules a
\* reconnect only while fewer than 5 attempts were made since the last open,
\* the n-th with a delay of 1000 * 2^(n-1) ms; an open resets the attempt
\* counter to 0; at most 5 reconnects are scheduled between two opens.
C8_Backoff ==
  /\ [](sched <= 5 /\ reconnectAttempts = sched)
  /\ [][/\ OnError(MaxRetryFails)
             => IF reconnectAttempts < 5
                THEN /\ reconnectAttempts' = reconnectAttempts + 1
                     /\ timers' = Append(timers,
                                    BackoffDelays[reconnectAttempts + 1])
                ELSE UNCHANGED <<reconnectAttempts, timers>>
        /\ OnOpen => reconnectAttempts' = 0]_vars

C8_Witness ==
  /\ sched = 5
  /\ timers = <<1000, 2000, 4000, 8000, 16000>>
  /\ fails = 6

\* C9: a transport failure is reported to the caller only when the 5
\* reconnect attempts are used up: while attempts remain it calls no error
\* callback and the message in progress is not marked failed; when none
\* remains the message in progress is marked incomplete and loading ends.
C9_ErrorAfterBudget ==
  [][OnError(MaxRetryFails)
       => IF reconnectAttempts < 5
          THEN UNCHANGED <<messages, isLoading>>
          ELSE /\ messages' = handleSSEError(messages)
               /\ ~isLoading']_vars

C9_Witness ==
  /\ fails = 6
  /\ reconnectAttempts = 5
  /\ ~isLoading
  /\ Len(messages) = 2
  /\ messages[2].status = "incomplete"
  /\ messages[2].content = Fragment(1, 1)

\* C10: handling the terminated event of the cycle in progress marks the
\* assistant message as stopped (neither streaming nor failed) and leaves
\* its partial content as it is.
C10_TerminatedStops ==
  [][(/\ OnMessage
      /\ Head(wire).type = "terminated"
      /\ messages # <<>>
      /\ ~messages[Len(messages)].isUser
      /\ messages[Len(messages)].status = "streaming")
       => /\ Len(messages') = Len(messages)
          /\ messages'[Len(messages)].status \notin {"streaming", "incomplete"}
          /\ messages'[Len(messages)].content
               = messages[Len(messages)].content]_vars

\* The fields of a Message that hold free text (status is an enumeration,
\* the other fields are flags, numbers and dates).
TextFields == {"content"}

\* C11: handling the error event of the cycle in progress marks the
\* assistant message incomplete, keeps the content streamed so far, and
\* records the error's reason string in the message.
C11_ErrorRecorded ==
  [][(/\ OnMessage
      /\ Head(wire).type = "error"
      /\ messages # <<>>
      /\ ~messages[Len(messages)].isUser
      /\ messages[Len(messages)].status = "streaming")
       => LET n == Len(messages)
          IN /\ Len(messages') = n
             /\ messages'[n].status = "incomplete"
             /\ messages'[n].content = messages[n].content
             /\ \E k \in TextFields :
                  messages'[n][k] = Head(wire).content]_vars

\* A cycle is in flight from the moment the server accepted its send request
\* until one of its terminal events is in the log.
InFlight(c) ==
  /\ \/ \E i \in 1..Len(jobs) : jobs[i] = c
     \/ Offsets(log, c, EventTypes) # {}
  /\ Offsets(log, c, TerminalTypes) = {}

\* C12: at most one cycle in flight: the client issues no send-message
\* request while a cycle it requested earlier is still in flight.
C12_OneInFlight ==
  [][HandleSendMessage => \A c \in Cycles : ~InFlight(c)]_vars

\* C13: stop generation: a click on the stop button while the worker runs a
\* cycle issues a cancellation request for it, and once a cycle's terminated
\* event is in the log no chunk of the cycle is appended.
C13_StopCancels ==
  [][/\ (HandleTerminateClick /\ worker.state = "running") => worker'.cancel
     /\ \A c \in Cycles :
          Offsets(log, c, {"terminated"}) # {}
            => Offsets(log', c, {"chunk"}) = Offsets(log, c, {"chunk"})]_vars

ObservedError(p, c) ==
  \E k \in 1..Len(peers[p].got) :
    /\ log[peers[p].got[k]].type = "error"
    /\ log[peers[p].got[k]].cycle = c

DbAssistant(c) == {i \in 1..Len(db) : ~db[i].isUser /\ db[i].cycle = c}

C17_FanOut ==
  \A p \in Peers :
    /\ \A k \in 1..Len(peers[p].got) : peers[p].got[k] = peers[p].from + k
    /\ peers[p].conn.open
         => /\ peers[p].conn.pos = peers[p].from + Len(peers[p].got)
            /\ (peers[p].conn.pos < LatestOffset /\ peers[p].conn.upto = 0)
                 => ENABLED PeerForward(p)

C17_Witness ==
  \E p, q \in Peers :
    /\ peers[p].conn.open
    /\ peers[q].conn.open
    /\ peers[p].from < peers[q].from
    /\ Len(peers[p].got) >= 3
    /\ peers[q].got # <<>>
    /\ peers[q].conn.pos < peers[p].conn.pos
    /\ peers[q].conn.pos < LatestOffset
    /\ \E k \in 1..Len(peers[p].got), j \in 1..Len(peers[q].got) :
         peers[p].got[k] = peers[q].got[j]

C20_HeartbeatNoLoss ==
  [][(GatewayAccept /\ proc.last # 0) => urlLastId <= proc.last]_vars

\* C22: a stale retry timer does not tear down a healthy connection: while
\* the connection is open, every pending backoff timer was scheduled by an
\* error that preceded the open, and its firing leaves the connection as it
\* is.
C22_HealthyKept ==
  [][((\E i \in 1..Len(timers) : TimerFire(i)) /\ es = "open")
       => (es' = "open" /\ gw' = gw)]_vars

\* The assistant messages of a list, in order.
Assistants(msgs) == SelectSeq(msgs, LAMBDA m : ~m.isUser)

\* C23: a response of the chat query that arrives while an assistant message
\* is streaming keeps that message, in its place among the assistant
\* messages, with at least the content it had.
C23_LoadKeepsStreaming ==
  [][(/\ DeliverChatData
      /\ messages # <<>>
      /\ ~messages[Len(messages)].isUser
      /\ messages[Len(messages)].status = "streaming")
       => LET k == Len(Assistants(messages))
              old == messages[Len(messages)].content
          IN /\ Len(Assistants(messages')) >= k
             /\ LET new == Assistants(messages')[k].content
                IN Len(new) >= Len(old) /\ SubSeq(new, 1, Len(old)) = old]_vars

\* C24: a merge of loaded chat data keeps every optimistic user message the
\* loaded data does not contain, after the loaded messages.
C24_MergeKeepsOptimistic ==
  [][LoadChatData
       => \A i \in 1..Len(messages) :
            (/\ messages[i].tempId # 0
             /\ \A k \in 1..Len(db) : ~(db[k].isUser /\ db[k].cycle = messages[i].tempId))
              => \E j \in (Len(db) + 1)..Len(messages') :
                   messages'[j] = messages[i]]_vars

\* C26: handling the terminal event of a cycle clears the loading state,
\* whichever terminal kind it is.
C26_TerminalClearsLoading ==
  [][(OnMessage /\ Head(wire).type \in TerminalTypes) => ~isLoading']_vars

\* The fields of a message that complete and error events write.
OutcomeOf(m) ==
  [status |-> m.status, isComplete |-> m.isComplete, tokens |-> m.tokens,
   completedAt |-> m.completedAt]

\* C27: handling a complete or error event changes no user message's
\* status, isComplete, tokens or completedAt.
C27_UserMessagesKept ==
  [][(OnMessage /\ Head(wire).type \in {"complete", "error"})
       => /\ Len(messages') = Len(messages)
          /\ \A i \in 1..Len(messages) :
               messages[i].isUser
                 => OutcomeOf(messages'[i]) = OutcomeOf(messages[i])]_vars

\* C29: the client cursor never moves backwards, in memory or in
\* localStorage.
C29_CursorMonotone ==
  [][stored' >= stored /\ lastMessageId' >= lastMessageId]_vars

\* C21: graceful disconnect: while the caller's last call is disconnect(),
\* the consumer holds no open connection.
C21_GracefulDisconnect == caller.released => es # "open"

\* C25: the first message handed over from new-chat creation is sent at most
\* once on a page.
C25_KickOffOnce == kickOff.sent <= 1

\* C28: a frame that cannot be parsed as an event leaves the cursor, the
\* connection, the loading flag and the assembled messages as they are.
C28_MalformedIgnored ==
  [][(\E data \in MalformedData : OnMalformed(data))
       => UNCHANGED <<stored, lastMessageId, es, gw, isLoading, messages>>]_vars

====
